---- MODULE Spec2Model ----
(***************************************************************************)
(* Verbatim Library Hub: the library store, the conversation state and the *)
(* citation resolver of src/App.tsx, with the answer requester of          *)
(* src/services/gemini.ts and the page extractor of utils/pdf.             *)
(*                                                                         *)
(* Strings are sequences of one-character strings, so that the regular     *)
(* expressions, includes, split, replace and trim of the source are        *)
(* computed character by character.                                        *)
(***************************************************************************)
EXTENDS Integers, Sequences, FiniteSets, TLC

VARIABLES
  textbooks,        \* useState<TextbookData[]>          (App.tsx:24)
  messages,         \* useState<Message[]>               (App.tsx:25)
  input,            \* useState('')                      (App.tsx:26)
  isProcessing,     \* useState(false)                   (App.tsx:27)
  isAnswering,      \* useState(false)                   (App.tsx:28)
  selectedBookIdx,  \* useState(0)                       (App.tsx:31)
  currentPage,      \* useState(1)                       (App.tsx:32)
  upload,           \* locals and position of the running handleFileUpload;
                    \* "failed" once it has left through the catch block
  send,             \* locals and position of the running handleSendMessage,
                    \* with the request of its call of the LLM in flight;
                    \* the messages of its closure are the first
                    \* send.messages entries of the append-only log
  origin            \* history: per message, the library its references
                    \* were resolved against (<<>> for the other messages)

vars == <<textbooks, messages, input, isProcessing, isAnswering,
          selectedBookIdx, currentPage, upload, send, origin>>

Min(a, b) == IF a < b THEN a ELSE b
Max(a, b) == IF a > b THEN a ELSE b

(***************************************************************************)
(* Characters and the string primitives of JavaScript                      *)
(***************************************************************************)
Digits == <<"0", "1", "2", "3", "4", "5", "6", "7", "8", "9">>

LowerMap ==
  ("A" :> "a") @@ ("B" :> "b") @@ ("C" :> "c") @@ ("D" :> "d") @@
  ("E" :> "e") @@ ("F" :> "f") @@ ("G" :> "g") @@ ("H" :> "h") @@
  ("I" :> "i") @@ ("J" :> "j") @@ ("K" :> "k") @@ ("L" :> "l") @@
  ("M" :> "m") @@ ("N" :> "n") @@ ("O" :> "o") @@ ("P" :> "p") @@
  ("Q" :> "q") @@ ("R" :> "r") @@ ("S" :> "s") @@ ("T" :> "t") @@
  ("U" :> "u") @@ ("V" :> "v") @@ ("W" :> "w") @@ ("X" :> "x") @@
  ("Y" :> "y") @@ ("Z" :> "z")

DigitMap ==
  ("0" :> 0) @@ ("1" :> 1) @@ ("2" :> 2) @@ ("3" :> 3) @@ ("4" :> 4) @@
  ("5" :> 5) @@ ("6" :> 6) @@ ("7" :> 7) @@ ("8" :> 8) @@ ("9" :> 9)

UpperCase == DOMAIN LowerMap
DigitChars == DOMAIN DigitMap

\* one character under the i flag / toLowerCase()
Lower(c) == IF c \in UpperCase THEN LowerMap[c] ELSE c

\* \d
IsDigit(c) == c \in DigitChars

\* \s
IsSpace(c) == c \in {" ", "\n", "\t", "\r"}

\* what . does not match
IsLineTerminator(c) == c \in {"\n", "\r"}

ToLowerCase(s) == [i \in 1..Len(s) |-> Lower(s[i])]

\* s.substring(0, n)
Substring0(s, n) == SubSeq(s, 1, Min(n, Len(s)))

\* the characters of s from position i on are exactly pat (pat # <<>>)
StartsWithAt(s, i, pat) ==
  /\ i + Len(pat) - 1 <= Len(s)
  /\ s[i] = pat[1]
  /\ \A k \in 2..Len(pat) : s[i + k - 1] = pat[k]

\* the same under the i flag; pat is given in lower case
StartsWithAtCI(s, i, pat) ==
  /\ i + Len(pat) - 1 <= Len(s)
  /\ Lower(s[i]) = pat[1]
  /\ \A k \in 2..Len(pat) : Lower(s[i + k - 1]) = pat[k]

\* s.includes(sub)
Includes(s, sub) ==
  \/ sub = <<>>
  \/ \E i \in 1..(Len(s) - Len(sub) + 1) :
        s[i] = sub[1] /\ StartsWithAt(s, i, sub)

\* first position at or after i whose character is not white space
RECURSIVE SkipSpaces(_, _)
SkipSpaces(s, i) ==
  IF i <= Len(s) /\ IsSpace(s[i]) THEN SkipSpaces(s, i + 1) ELSE i

\* first position at or after i whose character is not a digit
RECURSIVE SkipDigits(_, _)
SkipDigits(s, i) ==
  IF i <= Len(s) /\ IsDigit(s[i]) THEN SkipDigits(s, i + 1) ELSE i

\* parseInt / Number of a run of decimal digits
RECURSIVE ParseInt(_)
ParseInt(ds) ==
  IF ds = <<>> THEN 0
  ELSE 10 * ParseInt(SubSeq(ds, 1, Len(ds) - 1)) + DigitMap[ds[Len(ds)]]

\* `${n}` of a non-negative integer
RECURSIVE ToStr(_)
ToStr(n) ==
  IF n < 10 THEN <<Digits[n + 1]>>
  ELSE ToStr(n \div 10) \o <<Digits[(n % 10) + 1]>>

\* s.trim()
RECURSIVE TrimEnd(_)
TrimEnd(s) ==
  IF s # <<>> /\ IsSpace(s[Len(s)]) THEN TrimEnd(SubSeq(s, 1, Len(s) - 1))
  ELSE s

Trim(s) == LET i == SkipSpaces(s, 1) IN TrimEnd(SubSeq(s, i, Len(s)))

\* the least element of a non-empty set of positions
Least(S) == CHOOSE x \in S : \A y \in S : x <= y

\* the elements of a set of positions in increasing order
Ascending(S) ==
  [k \in 1..Cardinality(S) |->
     CHOOSE x \in S : Cardinality({y \in S : y < x}) = k - 1]

\* s.split(sep) for a one-character separator: the pieces between
\* consecutive separators
Split(s, sep) ==
  LET seps == Ascending({i \in 1..Len(s) : s[i] = sep})
      from(k) == IF k = 1 THEN 1 ELSE seps[k - 1] + 1
      to(k) == IF k = Len(seps) + 1 THEN Len(s) ELSE seps[k] - 1
  IN  [k \in 1..(Len(seps) + 1) |-> SubSeq(s, from(k), to(k))]

(***************************************************************************)
(* The two regular expressions of handleSendMessage                        *)
(***************************************************************************)
PagePattern == <<"p", "a", "g", "e">>

\* a failed match (null in the source)
NoMatch == [found |-> FALSE, first |-> 0, last |-> 0, group |-> <<>>]

\* /Page:?\s*(\d+)/i tried at position i: first and last position of the
\* match and the captured digits, or NoMatch
PageMatchAt(s, i) ==
  IF ~StartsWithAtCI(s, i, PagePattern) THEN NoMatch
  ELSE LET a == i + Len(PagePattern)
           b == IF a <= Len(s) /\ s[a] = ":" THEN a + 1 ELSE a
           c == SkipSpaces(s, b)
           d == SkipDigits(s, c)
       IN  IF d > c
           THEN [found |-> TRUE, first |-> i, last |-> d - 1,
                 group |-> SubSeq(s, c, d - 1)]
           ELSE NoMatch

\* the positions where /Page:?\s*(\d+)/i matches. A match holds no "p"
\* after its first character, so no two matches overlap and the scan of
\* the regular expression engine visits every one of them, left to right.
PageMatchStarts(s) ==
  {i \in 1..Len(s) : Lower(s[i]) = PagePattern[1] /\ PageMatchAt(s, i).found}

\* [...s.matchAll(/Page:?\s*(\d+)/gi)], as the list of captured groups
PageMatches(s) ==
  LET starts == Ascending(PageMatchStarts(s))
  IN  [k \in 1..Len(starts) |-> PageMatchAt(s, starts[k]).group]

\* s.match(/Page:?\s*(\d+)/i): the leftmost match, or NoMatch
FirstPageMatch(s) ==
  IF PageMatchStarts(s) = {} THEN NoMatch
  ELSE PageMatchAt(s, Least(PageMatchStarts(s)))

BlockPattern ==
  <<"v", "i", "s", "u", "a", "l", "_", "r", "e", "f", "e", "r", "e", "n",
    "c", "e", "s", ":", " ", "[">>

\* (.*?)\] from position j: the position of the first "]" with no line
\* terminator before it, or 0
FindClose(s, j) ==
  LET stops == {k \in j..Len(s) : s[k] = "]" \/ IsLineTerminator(s[k])}
  IN  IF stops = {} THEN 0
      ELSE IF s[Least(stops)] = "]" THEN Least(stops)
      ELSE 0

\* /VISUAL_REFERENCES: \[(.*?)\]/i tried at position i
BlockMatchAt(s, i) ==
  IF StartsWithAtCI(s, i, BlockPattern)
     /\ FindClose(s, i + Len(BlockPattern)) # 0
  THEN LET j == FindClose(s, i + Len(BlockPattern))
       IN  [found |-> TRUE, first |-> i, last |-> j,
            group |-> SubSeq(s, i + Len(BlockPattern), j - 1)]
  ELSE NoMatch

\* s.match(/VISUAL_REFERENCES: \[(.*?)\]/i): the leftmost match, or NoMatch
BlockMatch(s) ==
  LET starts == {i \in 1..Len(s) :
                   Lower(s[i]) = BlockPattern[1] /\ BlockMatchAt(s, i).found}
  IN  IF starts = {} THEN NoMatch ELSE BlockMatchAt(s, Least(starts))

(***************************************************************************)
(* Data model (src/types.ts)                                               *)
(***************************************************************************)
\* a TextbookPage; dataUrl and text play no part in the operations below
Page(i) == [pageNumber |-> i]

\* default of processPdf's maxPages parameter
MaxPagesDefault == 50

\* processPdf(file) of a valid document: pages 1..min(numPages, maxPages)
ProcessPdf(file) ==
  [i \in 1..Min(file.numPages, MaxPagesDefault) |-> Page(i)]

\* { name: files[i].name, pages }
Book(file) == [name |-> file.name, pages |-> ProcessPdf(file)]

\* { bookIndex, pageNumber }
Ref(b, p) == [bookIndex |-> b, pageNumber |-> p]

\* the optional field pages of a Message: undefined, or a list of references
Undefined == [defined |-> FALSE, refs |-> <<>>]
Defined(refs) == [defined |-> TRUE, refs |-> refs]

\* a Message. The ids keep the form that tells the three producers apart,
\* the clock value is left out.
Message(id, role, content, pages) ==
  [id |-> id, role |-> role, content |-> content, pages |-> pages]

RECURSIVE ConcatAll(_)
ConcatAll(ss) ==
  IF ss = <<>> THEN <<>> ELSE Head(ss) \o ConcatAll(Tail(ss))

(***************************************************************************)
(* Answer requester (src/services/gemini.ts)                               *)
(***************************************************************************)
FallbackError ==
  <<"E", "r", "r", "o", "r", " ", "c", "o", "m", "m", "u", "n", "i", "c",
    "a", "t", "i", "n", "g", " ", "w", "i", "t", "h", " ", "t", "h", "e",
    " ", "A", "I", ".", " ", "P", "l", "e", "a", "s", "e", " ", "t", "r",
    "y", " ", "a", "g", "a", "i", "n", ".">>

FallbackNotAvailable ==
  <<"T", "h", "e", " ", "a", "n", "s", "w", "e", "r", " ", "i", "s", " ",
    "n", "o", "t", " ", "a", "v", "a", "i", "l", "a", "b", "l", "e", " ",
    "i", "n", " ", "t", "h", "e", " ", "p", "r", "o", "v", "i", "d", "e",
    "d", " ", "t", "e", "x", "t", "b", "o", "o", "k", "s", ".">>

\* The outcome of ai.models.generateContent: [ok |-> FALSE] when it
\* throws, [ok |-> TRUE, text |-> t] when it returns (t = <<>> for an
\* empty or missing text).
Thrown == [ok |-> FALSE, text |-> <<>>]
Returned(t) == [ok |-> TRUE, text |-> t]

\* `BOOK: "${book.name}" (Index: ${bookIdx}), PAGE ${p.pageNumber}:\n${p.text}`
\* (the text of a page is not modelled)
PageText(book, bookIdx, p) ==
  <<"BOOK: \"">> \o book.name \o <<"\" (Index: ">> \o ToStr(bookIdx)
  \o <<"), PAGE ">> \o ToStr(p.pageNumber) \o <<":\n">>

\* textbooks.flatMap(book => book.pages.flatMap(p => [text, inlineData]))
PageParts(books) ==
  ConcatAll([b \in 1..Len(books) |->
    ConcatAll([i \in 1..Len(books[b].pages) |->
      <<[kind |-> "text",
         text |-> PageText(books[b], b - 1, books[b].pages[i])],
        [kind |-> "inlineData",
         text |-> <<"image/jpeg", "page ">>
                  \o ToStr(books[b].pages[i].pageNumber)]>>])])

\* the prompt: the question, the number of books, the fixed instructions
Prompt(question, books) ==
  <<"SEARCH REQUEST: \"">> \o question
  \o <<"\"\n\nIMPORTANT INSTRUCTION: \n1. This is a multi-book search. You have ">>
  \o ToStr(Len(books))
  \o <<" books available.\n2. Scan through all pages of all books. \n",
       "3. Use verbatim extracts only.\n",
       "4. Identify any relevant figures and list them using the VISUAL_REFERENCES format. \n",
       "5. Ensure you specify exactly which book and page each quote comes from.">>

\* the argument of ai.models.generateContent. chatHistory is a parameter
\* of askGemini that its body never reads.
GeminiRequest(question, books, chatHistory) ==
  [model |-> "gemini-3-pro-preview",
   contents |-> <<[role |-> "user",
                   parts |-> PageParts(books)
                             \o <<[kind |-> "text",
                                   text |-> Prompt(question, books)]>>]>>,
   config |-> [systemInstruction |-> "SYSTEM_INSTRUCTION",
               temperature |-> 0, topP |-> 1, topK |-> 1]]

\* no call of the LLM under way
NoRequest == [model |-> "", contents |-> <<>>, config |-> <<>>]

\* askGemini without the || fallback: an empty text is handed on as it is
AskGeminiWithoutDefault(question, books, chatHistory, response) ==
  IF ~response.ok THEN FallbackError ELSE response.text

\* askGemini: the text of the response, or one of the two fallbacks
AskGemini(question, books, chatHistory, response) ==
  IF ~response.ok THEN FallbackError
  ELSE IF response.text = <<>> THEN FallbackNotAvailable
  ELSE response.text

(***************************************************************************)
(* Citation resolver (handleSendMessage, after the await)                  *)
(***************************************************************************)
\* the inner forEach with the lower bound pNum >= 1 left out
BookCitationsWithoutLowerBound(answer, book, bIdx) ==
  LET pageMatches == PageMatches(answer)
      pNums == [k \in 1..Len(pageMatches) |-> ParseInt(pageMatches[k])]
      kept == SelectSeq(pNums, LAMBDA pNum :
                 /\ pNum <= Len(book.pages)
                 /\ Includes(answer, book.name))
  IN  [k \in 1..Len(kept) |-> Ref(bIdx, kept[k])]

\* the inner pageMatches.forEach for one book
BookCitations(answer, book, bIdx) ==
  LET pageMatches == PageMatches(answer)
      pNums == [k \in 1..Len(pageMatches) |-> ParseInt(pageMatches[k])]
      kept == SelectSeq(pNums, LAMBDA pNum :
                 /\ pNum >= 1
                 /\ pNum <= Len(book.pages)
                 /\ Includes(answer, book.name))
  IN  [k \in 1..Len(kept) |-> Ref(bIdx, kept[k])]

\* "Extract textual citations": textbooks.forEach((book, bIdx) => ...)
TextualCitations(answer, books) ==
  ConcatAll([b \in 1..Len(books) |-> BookCitations(answer, books[b], b - 1)])

\* the inner textbooks.forEach for one part of the visual block
PartReferences(part, books) ==
  LET hit(b) ==
        /\ Includes(ToLowerCase(part),
                    Substring0(ToLowerCase(books[b].name), 10))
        /\ FirstPageMatch(part).found
  IN  ConcatAll([b \in 1..Len(books) |->
        IF hit(b) THEN <<Ref(b - 1, ParseInt(FirstPageMatch(part).group))>>
        ELSE <<>>])

\* "Extract VISUAL_REFERENCES explicitly"
VisualReferences(answer, books) ==
  LET visualBlockMatch == BlockMatch(answer)
  IN  IF ~visualBlockMatch.found THEN <<>>
      ELSE LET parts == Split(visualBlockMatch.group, ";")
           IN  ConcatAll([k \in 1..Len(parts) |->
                            PartReferences(parts[k], books)])

\* `${r.bookIndex}-${r.pageNumber}`
RefKey(r) == ToStr(r.bookIndex) \o <<"-">> \o ToStr(r.pageNumber)

\* s.split('-').map(Number), read back as { bookIndex: b, pageNumber: p }
KeyRef(s) ==
  LET bp == Split(s, "-") IN Ref(ParseInt(bp[1]), ParseInt(bp[2]))

\* Array.from(new Set(keys)): the first occurrence of every key, in order
RECURSIVE SetOrder(_)
SetOrder(keys) ==
  IF keys = <<>> THEN <<>>
  ELSE LET init == SetOrder(SubSeq(keys, 1, Len(keys) - 1))
           last == keys[Len(keys)]
       IN  IF \E k \in 1..Len(init) : init[k] = last THEN init
           ELSE Append(init, last)

\* the references handed on as collected, without the Set
UniqueRefsWithoutSet(references) == references

\* "Clean unique refs"
UniqueRefs(references) ==
  LET keys == SetOrder([k \in 1..Len(references) |-> RefKey(references[k])])
  IN  [k \in 1..Len(keys) |-> KeyRef(keys[k])]

\* answer.replace(/VISUAL_REFERENCES: \[.*?\]/i, '').trim()
DisplayContent(answer) ==
  LET m == BlockMatch(answer)
  IN  IF ~m.found THEN Trim(answer)
      ELSE Trim(SubSeq(answer, 1, m.first - 1)
                \o SubSeq(answer, m.last + 1, Len(answer)))

(***************************************************************************)
(* Bounds                                                                  *)
(***************************************************************************)
MaxBooks == 2       \* books in the library
MaxMessages == 5    \* messages of the conversation

(***************************************************************************)
(* What is on screen (the three branches of <main>). The sidebar and the   *)
(* chat are rendered together; the 'chat' view mode only hides the sidebar *)
(* and enables nothing more, so the model keeps the 'split' view.          *)
(***************************************************************************)
WorkspaceRendered == ~(textbooks = <<>> /\ ~isProcessing) /\ ~isProcessing

\* const currentBook = textbooks[selectedBookIdx]
HasCurrentBook == selectedBookIdx + 1 \in DOMAIN textbooks
CurrentBookPages ==
  IF HasCurrentBook THEN Len(textbooks[selectedBookIdx + 1].pages) ELSE 0

\* book?.pages[ref.pageNumber - 1] is defined
HasPageData(books, ref) ==
  /\ ref.bookIndex + 1 \in DOMAIN books
  /\ ref.pageNumber \in DOMAIN books[ref.bookIndex + 1].pages

\* the thumbnails the gallery draws for one message
RenderedRefs(message, books) ==
  IF message.role = "assistant" /\ message.pages.defined /\ Len(books) > 0
  THEN SelectSeq(message.pages.refs, LAMBDA ref : HasPageData(books, ref))
  ELSE <<>>

\* messages still to be appended by the handlers in flight
Pending ==
  (IF isAnswering THEN 1 ELSE 0) + (IF isProcessing THEN 1 ELSE 0)

(***************************************************************************)
(* handleFileUpload                                                        *)
(***************************************************************************)
\* The notice of a finished upload. It is never parsed, so its fixed
\* parts are kept as three pieces instead of character by character.
UploadNotice(added, total) ==
  <<"I've added ">> \o ToStr(added)
  \o <<" new book(s) to the library. You now have ">> \o ToStr(total)
  \o <<" books indexed for search. I will synthesize answers using all available material.">>

\* the file picker fires: up to the first await processPdf
HandleFileUpload(files) ==
  /\ ~isProcessing
  /\ Len(files) > 0
  /\ Len(textbooks) + Len(SelectSeq(files, LAMBDA f : f.valid)) <= MaxBooks
  /\ Len(messages) + Pending + 1 <= MaxMessages
  /\ isProcessing' = TRUE
  /\ upload' = [pc |-> "processing", files |-> files, i |-> 0,
                newBooks |-> <<>>, textbooks |-> textbooks]
  /\ UNCHANGED <<textbooks, messages, input, isAnswering, selectedBookIdx,
                 currentPage, send, origin>>

\* processPdf(files[i]) resolves and another file follows
ProcessPdfResolved ==
  /\ upload.pc = "processing"
  /\ upload.files[upload.i + 1].valid
  /\ upload.i + 1 < Len(upload.files)
  /\ upload' = [upload EXCEPT
                  !.i = @ + 1,
                  !.newBooks = Append(@, Book(upload.files[upload.i + 1]))]
  /\ UNCHANGED <<textbooks, messages, input, isProcessing, isAnswering,
                 selectedBookIdx, currentPage, send, origin>>

\* processPdf of the last file resolves: the rest of the try block and
\* the finally block
FinishUpload ==
  /\ upload.pc = "processing"
  /\ upload.files[upload.i + 1].valid
  /\ upload.i + 1 = Len(upload.files)
  /\ LET newBooks == Append(upload.newBooks,
                            Book(upload.files[upload.i + 1]))
         updatedTextbooks == upload.textbooks \o newBooks
     IN  /\ textbooks' = updatedTextbooks
         /\ IF Len(upload.textbooks) = 0
            THEN selectedBookIdx' = 0 /\ currentPage' = 1
            ELSE UNCHANGED <<selectedBookIdx, currentPage>>
         /\ messages' = Append(messages,
              Message("upload-<now>", "assistant",
                      UploadNotice(Len(newBooks), Len(updatedTextbooks)),
                      Undefined))
         /\ origin' = Append(origin, <<>>)
         /\ upload' = [pc |-> "idle", files |-> <<>>, i |-> 0,
                       newBooks |-> <<>>, textbooks |-> <<>>]
  /\ isProcessing' = FALSE
  /\ UNCHANGED <<input, isAnswering, send>>

\* a catch block that registers the books processed before the failure
UploadFailedKeepingProcessed ==
  /\ upload.pc = "processing"
  /\ ~upload.files[upload.i + 1].valid
  /\ textbooks' = upload.textbooks \o upload.newBooks
  /\ upload' = [pc |-> "failed", files |-> <<>>, i |-> upload.i,
                newBooks |-> <<>>, textbooks |-> <<>>]
  /\ isProcessing' = FALSE
  /\ UNCHANGED <<messages, input, isAnswering, selectedBookIdx,
                 currentPage, send, origin>>

\* processPdf(files[i]) throws: the catch block and the finally block
UploadFailed ==
  /\ upload.pc = "processing"
  /\ ~upload.files[upload.i + 1].valid
  /\ upload' = [pc |-> "failed", files |-> <<>>, i |-> upload.i,
                newBooks |-> <<>>, textbooks |-> <<>>]
  /\ isProcessing' = FALSE
  /\ UNCHANGED <<textbooks, messages, input, isAnswering, selectedBookIdx,
                 currentPage, send, origin>>

(***************************************************************************)
(* Library store and previewer                                             *)
(***************************************************************************)
\* a filter that is off by one: it drops the entry after idx (the last
\* entry when idx is the last index)
WithoutNextBook(books, idx) ==
  IF idx + 2 <= Len(books)
  THEN SubSeq(books, 1, idx + 1) \o SubSeq(books, idx + 3, Len(books))
  ELSE SubSeq(books, 1, Len(books) - 1)

\* textbooks.filter((_, i) => i !== idx)
WithoutBook(books, idx) ==
  SubSeq(books, 1, idx) \o SubSeq(books, idx + 2, Len(books))

RemoveBook(idx) ==
  /\ WorkspaceRendered
  /\ idx \in 0..(Len(textbooks) - 1)
  /\ LET newBooks == WithoutBook(textbooks, idx)
     IN  /\ textbooks' = newBooks
         /\ IF selectedBookIdx >= Len(newBooks)
            THEN /\ selectedBookIdx' = Max(0, Len(newBooks) - 1)
                 /\ currentPage' = 1
            ELSE UNCHANGED <<selectedBookIdx, currentPage>>
  /\ UNCHANGED <<messages, input, isProcessing, isAnswering, upload, send,
                 origin>>

\* click on a book of the selector
SelectBook(idx) ==
  /\ WorkspaceRendered
  /\ idx \in 0..(Len(textbooks) - 1)
  /\ selectedBookIdx' = idx
  /\ currentPage' = 1
  /\ UNCHANGED <<textbooks, messages, input, isProcessing, isAnswering,
                 upload, send, origin>>

PreviousPage ==
  /\ WorkspaceRendered
  /\ ~(currentPage <= 1)
  /\ currentPage' = Max(1, currentPage - 1)
  /\ UNCHANGED <<textbooks, messages, input, isProcessing, isAnswering,
                 selectedBookIdx, upload, send, origin>>

NextPage ==
  /\ WorkspaceRendered
  /\ ~(currentPage >= CurrentBookPages)
  /\ currentPage' = Min(IF CurrentBookPages = 0 THEN 1 ELSE CurrentBookPages,
                        currentPage + 1)
  /\ UNCHANGED <<textbooks, messages, input, isProcessing, isAnswering,
                 selectedBookIdx, upload, send, origin>>

\* click on thumbnail r of message k
JumpToRef(k, r) ==
  /\ WorkspaceRendered
  /\ k \in DOMAIN messages
  /\ r \in DOMAIN RenderedRefs(messages[k], textbooks)
  /\ selectedBookIdx' = RenderedRefs(messages[k], textbooks)[r].bookIndex
  /\ currentPage' = RenderedRefs(messages[k], textbooks)[r].pageNumber
  /\ UNCHANGED <<textbooks, messages, input, isProcessing, isAnswering,
                 upload, send, origin>>

(***************************************************************************)
(* handleSendMessage                                                       *)
(***************************************************************************)
\* onChange of the question field
SetInput(text) ==
  /\ WorkspaceRendered
  /\ input # text
  /\ input' = text
  /\ UNCHANGED <<textbooks, messages, isProcessing, isAnswering,
                 selectedBookIdx, currentPage, upload, send, origin>>

\* the guard without its isAnswering disjunct
RejectedIgnoringAnswering == Trim(input) = <<>> \/ Len(textbooks) = 0

\* if (!input.trim() || textbooks.length === 0 || isAnswering) return
Rejected == Trim(input) = <<>> \/ Len(textbooks) = 0 \/ isAnswering

\* messages.map(m => ({ role: m.role, content: m.content }))
ChatHistory(msgs) ==
  [k \in 1..Len(msgs) |-> [role |-> msgs[k].role, content |-> msgs[k].content]]

\* the form is submitted: up to the await askGemini
HandleSendMessage ==
  /\ WorkspaceRendered
  /\ IF Rejected THEN UNCHANGED vars
     ELSE /\ Len(messages) + Pending + 2 <= MaxMessages
          /\ messages' = Append(messages,
                                Message("<now>", "user", input, Undefined))
          /\ origin' = Append(origin, <<>>)
          /\ input' = <<>>
          /\ isAnswering' = TRUE
          /\ send' = [pc |-> "awaiting", input |-> input,
                      textbooks |-> textbooks, messages |-> Len(messages),
                      request |-> GeminiRequest(input, textbooks,
                                                ChatHistory(messages)),
                      response |-> Thrown, answer |-> <<>>,
                      references |-> <<>>, uniqueRefs |-> <<>>]
          /\ UNCHANGED <<textbooks, isProcessing, selectedBookIdx,
                         currentPage, upload>>

\* The locals of handleSendMessage after the await. references holds the
\* textual citations followed by the entries of the visual block.
Resolved(answer, books) ==
  LET references == TextualCitations(answer, books)
                    \o VisualReferences(answer, books)
  IN  [answer |-> answer,
       references |-> references,
       uniqueRefs |-> UniqueRefs(references),
       displayContent |-> DisplayContent(answer)]

\* the rest of handleSendMessage with the arguments of jumpToRef swapped
ReceiveAnswerJumpSwapped(response) ==
  /\ send.pc = "awaiting"
  /\ \E r \in {Resolved(AskGemini(send.input, send.textbooks,
                          ChatHistory(SubSeq(messages, 1, send.messages)),
                          response),
                        send.textbooks)} :
       /\ messages' = Append(messages,
            Message("<now+1>", "assistant", r.displayContent,
                    IF Len(r.uniqueRefs) > 0 THEN Defined(r.uniqueRefs)
                    ELSE Undefined))
       /\ origin' = Append(origin, send.textbooks)
       /\ IF Len(r.uniqueRefs) > 0
          THEN /\ selectedBookIdx' = r.uniqueRefs[1].pageNumber
               /\ currentPage' = r.uniqueRefs[1].bookIndex
          ELSE UNCHANGED <<selectedBookIdx, currentPage>>
       /\ send' = [pc |-> "done", input |-> <<>>,
                   textbooks |-> send.textbooks, messages |-> 0,
                   request |-> NoRequest,
                   response |-> response, answer |-> r.answer,
                   references |-> r.references,
                   uniqueRefs |-> r.uniqueRefs]
  /\ isAnswering' = FALSE
  /\ UNCHANGED <<textbooks, input, isProcessing, upload>>

\* askGemini settles: the rest of handleSendMessage
ReceiveAnswer(response) ==
  /\ send.pc = "awaiting"
  /\ \E r \in {Resolved(AskGemini(send.input, send.textbooks,
                          ChatHistory(SubSeq(messages, 1, send.messages)),
                          response),
                        send.textbooks)} :
       /\ messages' = Append(messages,
            Message("<now+1>", "assistant", r.displayContent,
                    IF Len(r.uniqueRefs) > 0 THEN Defined(r.uniqueRefs)
                    ELSE Undefined))
       /\ origin' = Append(origin, send.textbooks)
       /\ IF Len(r.uniqueRefs) > 0
          THEN /\ selectedBookIdx' = r.uniqueRefs[1].bookIndex
               /\ currentPage' = r.uniqueRefs[1].pageNumber
          ELSE UNCHANGED <<selectedBookIdx, currentPage>>
       /\ send' = [pc |-> "done", input |-> <<>>,
                   textbooks |-> send.textbooks, messages |-> 0,
                   request |-> NoRequest,
                   response |-> response, answer |-> r.answer,
                   references |-> r.references,
                   uniqueRefs |-> r.uniqueRefs]
  /\ isAnswering' = FALSE
  /\ UNCHANGED <<textbooks, input, isProcessing, upload>>

(***************************************************************************)
(* Inputs: files, questions and answers of the LLM                         *)
(***************************************************************************)
File(name, numPages, valid) ==
  [name |-> name, numPages |-> numPages, valid |-> valid]

Anatomy == <<"A", "n", "a", "t", "o", "m", "y">>
Alpha == <<"A", "l", "p", "h", "a">>
Beta == <<"B", "e", "t", "a">>
Broken == <<"B", "r", "o", "k", "e", "n">>

\* all sequences over S of length at most n
SeqsUpTo(S, n) == UNION {[1..k -> S] : k \in 0..n}

RECURSIVE Join(_, _)
Join(ss, sep) ==
  IF ss = <<>> THEN <<>>
  ELSE IF Len(ss) = 1 THEN ss[1]
  ELSE ss[1] \o sep \o Join(Tail(ss), sep)

\* Book: "<name>", Page: <n>
BookEntry(name, n) ==
  <<"B", "o", "o", "k", ":", " ", "\"">> \o name
  \o <<"\"", ",", " ", "P", "a", "g", "e", ":", " ">> \o ToStr(n)

\* Page <n>
PageCitation(n) == <<"P", "a", "g", "e", " ">> \o ToStr(n)

\* VISUAL_REFERENCES: [<body>]
VisualBlock(body) ==
  <<"V", "I", "S", "U", "A", "L", "_", "R", "E", "F", "E", "R", "E", "N",
    "C", "E", "S", ":", " ", "[">> \o body \o <<"]">>

XisY == <<"X", " ", "i", "s", " ", "Y">>

\* X is Y (Book: "Anatomy", Page: 2). VISUAL_REFERENCES: [Book: "Anatomy", Page: 2]
EndToEndAnswer ==
  XisY \o <<" ", "(">> \o BookEntry(Anatomy, 2) \o <<")", ".", " ">>
  \o VisualBlock(BookEntry(Anatomy, 2))

AppFiles ==
  {File(Anatomy, 3, TRUE), File(Beta, 2, TRUE), File(Broken, 0, FALSE)}

\* the file lists of one upload: one file, or two
Batches ==
  {<<f>> : f \in AppFiles} \cup {<<f, g>> : f \in AppFiles, g \in AppFiles}

AppInputs == {<<"q">>}

AppResponses ==
  {Thrown, Returned(<<>>), Returned(EndToEndAnswer)}

(***************************************************************************)
(* The application                                                         *)
(***************************************************************************)
IdleUpload ==
  [pc |-> "idle", files |-> <<>>, i |-> 0, newBooks |-> <<>>,
   textbooks |-> <<>>]

IdleSend ==
  [pc |-> "idle", input |-> <<>>, textbooks |-> <<>>, messages |-> 0,
   request |-> NoRequest, response |-> Thrown, answer |-> <<>>, references |-> <<>>,
   uniqueRefs |-> <<>>]

Init ==
  /\ textbooks = <<>>
  /\ messages = <<>>
  /\ input = <<>>
  /\ isProcessing = FALSE
  /\ isAnswering = FALSE
  /\ selectedBookIdx = 0
  /\ currentPage = 1
  /\ upload = IdleUpload
  /\ send = IdleSend
  /\ origin = <<>>

Next ==
  \/ \E files \in Batches : HandleFileUpload(files)
  \/ ProcessPdfResolved
  \/ FinishUpload
  \/ UploadFailed
  \/ \E idx \in 0..(Len(textbooks) - 1) : RemoveBook(idx)
  \/ \E idx \in 0..(Len(textbooks) - 1) : SelectBook(idx)
  \/ PreviousPage
  \/ NextPage
  \/ \E k \in DOMAIN messages :
       \E r \in DOMAIN RenderedRefs(messages[k], textbooks) : JumpToRef(k, r)
  \/ \E text \in AppInputs : SetInput(text)
  \/ HandleSendMessage
  \/ \E response \in AppResponses : ReceiveAnswer(response)

Spec == Init /\ [][Next]_vars

(***************************************************************************)
(* The resolver on its own: the library of one finished upload, one        *)
(* question, and every answer of a bounded grammar                         *)
(***************************************************************************)
MaxInline == 3      \* inline items of an answer without a block
MaxEntries == 2     \* entries of a VISUAL_REFERENCES block

CitedNames == {Alpha, Beta}
CitedPages == {0, 3, 5, 999}

\* what the prose of an answer is made of: book names and Page <n>
InlineItems == CitedNames \cup {PageCitation(n) : n \in CitedPages}

Bodies(n) == {Join(items, <<" ">>) : items \in SeqsUpTo(InlineItems, n)}

Entries == {BookEntry(name, n) : name \in CitedNames, n \in CitedPages}

Blocks(n) ==
  {VisualBlock(Join(es, <<";", " ">>)) : es \in SeqsUpTo(Entries, n)}

ResolverAnswers ==
  \* prose only
  Bodies(MaxInline)
  \* prose between white space
  \cup {<<" ">> \o body \o <<"\n">> : body \in Bodies(MaxInline)}
  \* prose, then one block
  \cup {body \o <<" ">> \o block :
          body \in Bodies(1), block \in Blocks(MaxEntries)}
  \* two blocks, on one line or on two
  \cup {b1 \o sep \o b2 :
          b1 \in Blocks(1), b2 \in Blocks(1), sep \in {<<" ">>, <<"\n">>}}
  \* a block whose closing bracket stands on the next line
  \cup {VisualBlock(e \o <<"\n">>) : e \in Entries}

ResolverResponses == {Thrown} \cup {Returned(a) : a \in ResolverAnswers}

ResolverFiles ==
  {File(Alpha, 5, TRUE), File(Beta, 5, TRUE), File(Beta, 3, TRUE)}

ResolverBatches ==
  {<<f>> : f \in ResolverFiles}
  \cup {<<f, g>> : f \in ResolverFiles, g \in ResolverFiles}

\* the state after one upload of valid files and the typing of a question
InitResolver ==
  \E files \in ResolverBatches :
    /\ textbooks = [k \in 1..Len(files) |-> Book(files[k])]
    /\ messages = <<Message("upload-<now>", "assistant",
                            UploadNotice(Len(files), Len(files)), Undefined)>>
    /\ origin = << <<>> >>
    /\ input = <<"q">>
    /\ isProcessing = FALSE
    /\ isAnswering = FALSE
    /\ selectedBookIdx = 0
    /\ currentPage = 1
    /\ upload = IdleUpload
    /\ send = IdleSend

NextResolver ==
  \/ HandleSendMessage
  \/ \E response \in ResolverResponses : ReceiveAnswer(response)

ResolverSpec == InitResolver /\ [][NextResolver]_vars

(***************************************************************************)
(* The library store and the previewer on their own: the library of one    *)
(* finished upload, then removals, selections and page turns               *)
(***************************************************************************)
MaxShelf == 3       \* books of the uploaded library

ShelfFiles ==
  {File(Anatomy, 3, TRUE), File(Beta, 2, TRUE), File(Alpha, 5, TRUE)}

ShelfBatches == SeqsUpTo(ShelfFiles, MaxShelf) \ {<<>>}

\* the state after one upload of valid files
InitLibrary ==
  \E files \in ShelfBatches :
    /\ textbooks = [k \in 1..Len(files) |-> Book(files[k])]
    /\ messages = <<Message("upload-<now>", "assistant",
                            UploadNotice(Len(files), Len(files)), Undefined)>>
    /\ origin = << <<>> >>
    /\ input = <<>>
    /\ isProcessing = FALSE
    /\ isAnswering = FALSE
    /\ selectedBookIdx = 0
    /\ currentPage = 1
    /\ upload = IdleUpload
    /\ send = IdleSend

NextLibrary ==
  \/ \E idx \in 0..(Len(textbooks) - 1) : RemoveBook(idx)
  \/ \E idx \in 0..(Len(textbooks) - 1) : SelectBook(idx)
  \/ PreviousPage
  \/ NextPage

LibrarySpec == InitLibrary /\ [][NextLibrary]_vars

(***************************************************************************)
(* Properties                                                              *)
(***************************************************************************)
\* a Reference is valid against a library (section 3 of the specification)
ValidRef(books, ref) ==
  /\ 0 <= ref.bookIndex
  /\ ref.bookIndex < Len(books)
  /\ 1 <= ref.pageNumber
  /\ ref.pageNumber <= Len(books[ref.bookIndex + 1].pages)

\* the references a message carries (none when pages is undefined)
RefsOf(message) == IF message.pages.defined THEN message.pages.refs ELSE <<>>

\* the messages appended by handleSendMessage after its await
IsAnswer(message) == message.id = "<now+1>"

\* the message of the last answer; once send.pc = "done" it is the one
\* made of send.answer
LastAnswer ==
  LET answers == {k \in DOMAIN messages : IsAnswer(messages[k])}
  IN  messages[CHOOSE k \in answers : \A j \in answers : j <= k]

\* the marker of a block, in lower case
BlockMarker ==
  <<"v", "i", "s", "u", "a", "l", "_", "r", "e", "f", "e", "r", "e", "n",
    "c", "e", "s">>

\* an answer that holds no VISUAL_REFERENCES block, not even a malformed one
NoBlock(answer) == ~Includes(ToLowerCase(answer), BlockMarker)

\* c is s without its leading and trailing white space
IsTrimOf(c, s) ==
  \E i \in 0..Len(s) :
    /\ i + Len(c) <= Len(s)
    /\ SubSeq(s, i + 1, i + Len(c)) = c
    /\ \A k \in 1..i : IsSpace(s[k])
    /\ \A k \in (i + Len(c) + 1)..Len(s) : IsSpace(s[k])
    /\ c # <<>> => ~IsSpace(c[1]) /\ ~IsSpace(c[Len(c)])

\* the numbers of the inline citations Page n of an answer
CitedPageNumbers(answer) ==
  {ParseInt(PageMatches(answer)[k]) : k \in DOMAIN PageMatches(answer)}

\* ref can be traced to the text of the answer: its book is named there,
\* its page is cited there, and the page lies within the book
Traceable(answer, books, ref) ==
  /\ ValidRef(books, ref)
  /\ Includes(answer, books[ref.bookIndex + 1].name)
  /\ ref.pageNumber \in CitedPageNumbers(answer)

\* C1: every reference attached to an assistant message is valid against
\* the library it was resolved against (book index within the library,
\* page number within 1..number of pages of the book), whether it comes
\* from an inline citation or from an entry of the VISUAL_REFERENCES block.
C1_ReferencesValid ==
  \A k \in DOMAIN messages :
    \A i \in DOMAIN RefsOf(messages[k]) :
      ValidRef(origin[k], RefsOf(messages[k])[i])

\* C2 as stated: an answer without a VISUAL_REFERENCES block gives the
\* trimmed answer as content and no references at all, inline citations
\* and book names notwithstanding.
C2_NoBlockNoReferences ==
  (send.pc = "done" /\ NoBlock(send.answer)) =>
    /\ IsTrimOf(LastAnswer.content, send.answer)
    /\ LastAnswer.pages = Undefined

\* C2 amended: an answer without a VISUAL_REFERENCES block gives the
\* trimmed answer as content; every reference of the message names a book
\* whose name occurs in the answer and a page cited inline that lies
\* within that book; the message carries no references exactly when no
\* (book, page) pair of that kind exists.
C2_NoBlockInlineReferences ==
  (send.pc = "done" /\ NoBlock(send.answer)) =>
    /\ IsTrimOf(LastAnswer.content, send.answer)
    /\ \A i \in DOMAIN RefsOf(LastAnswer) :
         Traceable(send.answer, send.textbooks, RefsOf(LastAnswer)[i])
    /\ LastAnswer.pages.defined <=>
         \E b \in 0..(Len(send.textbooks) - 1) :
           \E n \in CitedPageNumbers(send.answer) :
             Traceable(send.answer, send.textbooks, Ref(b, n))
    /\ LastAnswer.pages.defined => LastAnswer.pages.refs # <<>>

\* C2's case: an answer between white space, without a block, that names a
\* book and cites one page within it and one page beyond its last
C2_InlineCitationsResolved ==
  /\ send.pc = "done"
  /\ NoBlock(send.answer)
  /\ send.answer # LastAnswer.content
  /\ LastAnswer.pages.defined
  /\ \E n \in CitedPageNumbers(send.answer) :
       \A b \in 0..(Len(send.textbooks) - 1) :
         ~Traceable(send.answer, send.textbooks, Ref(b, n))

\* VISUAL_REFERENCES: [Book: "Alpha", Page: 3; Book: "Beta", Page: 5]
AlphaBetaBlock ==
  VisualBlock(BookEntry(Alpha, 3) \o <<";", " ">> \o BookEntry(Beta, 5))

\* the index of the one book of that name
IndexOf(books, name) ==
  (CHOOSE k \in DOMAIN books : books[k].name = name) - 1

\* C3: with Alpha at index a and Beta at index b, five pages or more each,
\* an answer holding the block VISUAL_REFERENCES: [Book: "Alpha", Page: 3;
\* Book: "Beta", Page: 5] gives exactly the references (a,3), (b,5), in
\* that order, and a content without the block.
C3_AlphaBetaBlock ==
  ( /\ send.pc = "done"
    /\ Includes(send.answer, AlphaBetaBlock)
    /\ Len(send.textbooks) = 2
    /\ {send.textbooks[k].name : k \in 1..2} = {Alpha, Beta}
    /\ \A k \in 1..2 : Len(send.textbooks[k].pages) >= 5 ) =>
    /\ RefsOf(LastAnswer) = <<Ref(IndexOf(send.textbooks, Alpha), 3),
                              Ref(IndexOf(send.textbooks, Beta), 5)>>
    /\ ~Includes(LastAnswer.content, AlphaBetaBlock)

\* C4: the content of an assistant message holds no VISUAL_REFERENCES
\* block, however many blocks the raw answer holds.
C4_NoBlockInContent ==
  \A k \in DOMAIN messages :
    messages[k].role = "assistant" => ~BlockMatch(messages[k].content).found

\* position of the first occurrence of x in seq
FirstIndex(seq, x) == Least({i \in DOMAIN seq : seq[i] = x})

\* C5: the references of an assistant message hold no (bookIndex,
\* pageNumber) pair twice; they are the pairs of the collected list (inline
\* citations, then block entries), in the order of their first occurrence
\* there.
C5_UniqueInFirstOccurrenceOrder ==
  send.pc = "done" =>
    LET refs == RefsOf(LastAnswer)
        collected == send.references
    IN  /\ \A i \in DOMAIN refs : \A j \in DOMAIN refs :
             i # j => ~(/\ refs[i].bookIndex = refs[j].bookIndex
                        /\ refs[i].pageNumber = refs[j].pageNumber)
        /\ \A i \in DOMAIN collected : \E j \in DOMAIN refs :
             refs[j] = collected[i]
        /\ \A j \in DOMAIN refs : \E i \in DOMAIN collected :
             collected[i] = refs[j]
        /\ \A i \in DOMAIN refs : \A j \in DOMAIN refs :
             i < j => FirstIndex(collected, refs[i])
                        < FirstIndex(collected, refs[j])

\* C5's case: a page cited inline and again in the block, and two
\* references or more surviving
C5_CitedInlineAndInBlock ==
  /\ send.pc = "done"
  /\ Len(RefsOf(LastAnswer)) >= 2
  /\ \E i \in DOMAIN send.references : \E j \in DOMAIN send.references :
       /\ i <= Len(TextualCitations(send.answer, send.textbooks))
       /\ j > Len(TextualCitations(send.answer, send.textbooks))
       /\ send.references[i] = send.references[j]

\* the book now at the index of ref is the book ref was resolved against
\* for message k
DesignatesItsBook(k, ref, books) ==
  /\ ref.bookIndex + 1 \in DOMAIN origin[k]
  /\ ref.bookIndex + 1 \in DOMAIN books
  /\ books[ref.bookIndex + 1] = origin[k][ref.bookIndex + 1]

\* C6: after removeBook, a reference of an earlier message whose bookIndex
\* now designates another book than the one it was resolved against is not
\* drawn in the gallery: a reference that designated its book before the
\* removal and is drawn after it still designates that book.
C6_StaleReferencesDropped ==
  [][Len(textbooks') < Len(textbooks) =>
       \A k \in DOMAIN messages :
         \A i \in DOMAIN RenderedRefs(messages[k], textbooks') :
           DesignatesItsBook(k, RenderedRefs(messages[k], textbooks')[i],
                             textbooks)
             => DesignatesItsBook(k, RenderedRefs(messages[k], textbooks')[i],
                                  textbooks')]_vars

\* C7: when the assistant message of a question is appended, each of its
\* references points to a book and a page of the library as it is at that
\* moment, whatever removeBook and uploads did while the question was in
\* flight.
C7_ReferencesValidAtAppend ==
  [][(send.pc = "awaiting" /\ send'.pc = "done") =>
       \A i \in DOMAIN RefsOf(messages'[Len(messages')]) :
         ValidRef(textbooks', RefsOf(messages'[Len(messages')])[i])]_vars

\* the messages of handleSendMessage, in order
Turns == SelectSeq(messages, LAMBDA m : m.id \in {"<now>", "<now+1>"})

UserMessages == SelectSeq(messages, LAMBDA m : m.role = "user")

\* user and assistant messages of handleSendMessage alternate, and a
\* question is in flight exactly when the last of them is a user message
Alternating ==
  /\ \A k \in DOMAIN Turns :
       /\ Turns[k].role = (IF k % 2 = 1 THEN "user" ELSE "assistant")
       /\ IsAnswer(Turns[k]) <=> k % 2 = 0
  /\ isAnswering <=> Len(Turns) % 2 = 1
  /\ isAnswering <=> send.pc = "awaiting"

\* C8: at most one question is in flight: while isAnswering is true no
\* step appends a user message or starts a call of the LLM, and the user
\* and assistant messages of handleSendMessage strictly alternate.
C8_OneQuestionInFlight ==
  [][ /\ isAnswering =>
           /\ UserMessages' = UserMessages
           /\ send'.pc = "awaiting" => send' = send
      /\ Alternating' ]_vars

\* C8's case: a second question is in flight, and a further one is typed
\* that only isAnswering keeps from being sent
C8_SubmissionWhileAnswering ==
  /\ isAnswering
  /\ WorkspaceRendered
  /\ Trim(input) # <<>>
  /\ Len(textbooks) > 0
  /\ Len(Turns) = 3

\* C9: when processPdf throws for a file of a batch, the library is the
\* one the upload started from, without any book of the batch; no message
\* is appended, the selection is unchanged and isProcessing is false again.
C9_FailedUploadLeavesLibrary ==
  [][(upload.pc = "processing" /\ upload'.pc = "failed") =>
       /\ textbooks' = upload.textbooks
       /\ textbooks' = textbooks
       /\ messages' = messages
       /\ selectedBookIdx' = selectedBookIdx
       /\ currentPage' = currentPage
       /\ isProcessing /\ ~isProcessing']_vars

\* C9's case: the upload into a library of one book failed after a file of
\* the same batch had been processed
C9_FailedAfterProcessedFile ==
  /\ upload.pc = "failed"
  /\ upload.i >= 1
  /\ Len(textbooks) = 1
  /\ ~isProcessing

\* C10: when the call of the LLM throws or returns an empty text, one
\* assistant message with the fixed fallback text and without references is
\* appended, the preview is left where it is and isAnswering is false
\* again, so that the guard of handleSendMessage lets a further question
\* through.
C10_FallbackAnswer ==
  [][(send.pc = "awaiting" /\ send'.pc = "done"
      /\ (~send'.response.ok \/ send'.response.text = <<>>)) =>
       /\ Len(messages') = Len(messages) + 1
       /\ SubSeq(messages', 1, Len(messages)) = messages
       /\ messages'[Len(messages')].role = "assistant"
       /\ messages'[Len(messages')].content =
            (IF send'.response.ok THEN FallbackNotAvailable
             ELSE FallbackError)
       /\ messages'[Len(messages')].pages = Undefined
       /\ selectedBookIdx' = selectedBookIdx
       /\ currentPage' = currentPage
       /\ isAnswering /\ ~isAnswering'
       /\ textbooks' = textbooks]_vars

\* C10's case: each of the two fallbacks was the answer to a question, and
\* a further question followed the first of them
C10_QuestionAfterFallback ==
  \E j \in DOMAIN messages : \E k \in DOMAIN messages :
    /\ j < k
    /\ {messages[j].content, messages[k].content}
         = {FallbackError, FallbackNotAvailable}
    /\ IsAnswer(messages[j]) /\ IsAnswer(messages[k])

\* a part of the request holds the content of the turn
CarriesTurn(request, turn) ==
  \E c \in DOMAIN request.contents :
    \/ /\ request.contents[c].role = turn.role
       /\ \E p \in DOMAIN request.contents[c].parts :
            request.contents[c].parts[p].text = turn.content
    \/ \E p \in DOMAIN request.contents[c].parts :
         Includes(request.contents[c].parts[p].text, turn.content)

\* C11: the request sent to the LLM for a question holds the role and
\* content of every earlier message of the conversation, and the same
\* question over the same library with another history gives another
\* request.
C11_RequestCarriesHistory ==
  send.pc = "awaiting" =>
    LET chatHistory == ChatHistory(SubSeq(messages, 1, send.messages))
    IN  /\ \A k \in DOMAIN chatHistory :
             CarriesTurn(send.request, chatHistory[k])
        /\ \A n \in 0..Len(messages) :
             n # send.messages =>
               GeminiRequest(send.input, send.textbooks,
                             ChatHistory(SubSeq(messages, 1, n)))
                 # send.request

\* C12: removeBook(idx) removes exactly entry idx: the books below idx
\* keep their index, every book above idx moves down by one, in the same
\* order; afterwards the selected book index lies within a non-empty
\* library.
C12_RemoveBookShifts ==
  [][\A idx \in 0..(Len(textbooks) - 1) :
       RemoveBook(idx) =>
         /\ Len(textbooks') = Len(textbooks) - 1
         /\ \A j \in 0..(idx - 1) : textbooks'[j + 1] = textbooks[j + 1]
         /\ \A j \in (idx + 1)..(Len(textbooks) - 1) :
              textbooks'[j] = textbooks[j + 1]
         /\ textbooks' # <<>> =>
              selectedBookIdx' \in 0..(Len(textbooks') - 1)]_vars

\* C12's case: of the three uploaded books Anatomy, Beta, Alpha the middle
\* one was removed while the last one was selected; Anatomy kept index 0,
\* Alpha moved to index 1 and the selection was clamped onto it
C12_MiddleBookRemoved ==
  /\ messages[1].content = UploadNotice(3, 3)
  /\ Len(textbooks) = 2
  /\ textbooks[1].name = Anatomy
  /\ textbooks[2].name = Alpha
  /\ selectedBookIdx = 1
  /\ currentPage = 1

\* X is Y (Book: "Anatomy", Page: 2).
EndToEndContent ==
  XisY \o <<" ", "(">> \o BookEntry(Anatomy, 2) \o <<")", ".">>

\* C13: when handleSendMessage appends an assistant message with
\* references, the preview (selectedBookIdx, currentPage) is set to the
\* first of them; when the message has none, the preview is left as it is.
\* For the library of the one book Anatomy with 3 pages and the answer
\* X is Y (Book: "Anatomy", Page: 2). VISUAL_REFERENCES: [Book: "Anatomy",
\* Page: 2] the content is X is Y (Book: "Anatomy", Page: 2)., the
\* references are [(0,2)] and the preview is (0,2).
C13_PreviewFollowsFirstReference ==
  [][(send.pc = "awaiting" /\ send'.pc = "done") =>
       LET refs == RefsOf(messages'[Len(messages')])
       IN  /\ refs # <<>> =>
                /\ selectedBookIdx' = refs[1].bookIndex
                /\ currentPage' = refs[1].pageNumber
           /\ refs = <<>> =>
                /\ selectedBookIdx' = selectedBookIdx
                /\ currentPage' = currentPage
           /\ ( /\ send.textbooks = <<Book(File(Anatomy, 3, TRUE))>>
                /\ send'.response = Returned(EndToEndAnswer) ) =>
                /\ messages'[Len(messages')].content = EndToEndContent
                /\ refs = <<Ref(0, 2)>>
                /\ selectedBookIdx' = 0
                /\ currentPage' = 2]_vars

\* C13's case: the end-to-end answer was received for the library of the
\* one book Anatomy and moved the preview to (0,2), and a later answer
\* without references left the preview there
C13_EndToEndThenFallback ==
  /\ send.pc = "done"
  /\ send.textbooks = <<Book(File(Anatomy, 3, TRUE))>>
  /\ ~send.response.ok
  /\ \E k \in DOMAIN messages :
       /\ k < Len(messages)
       /\ RefsOf(messages[k]) = <<Ref(0, 2)>>
       /\ messages[k].content = EndToEndContent
  /\ RefsOf(LastAnswer) = <<>>
  /\ selectedBookIdx = 0
  /\ currentPage = 2

\* C14: whenever the library is not empty the preview designates an
\* existing page: selectedBookIdx is an index of the library and currentPage
\* a page of the selected book.
C14_PreviewDesignatesPage ==
  textbooks # <<>> =>
    /\ 0 <= selectedBookIdx
    /\ selectedBookIdx < Len(textbooks)
    /\ 1 <= currentPage
    /\ currentPage <= Len(textbooks[selectedBookIdx + 1].pages)

====
